---- MODULE Spec2Model ----
(***************************************************************************)
(* Model of stacker.py (FanyaOff/OsuStacker).                              *)
(*                                                                         *)
(* Text is modelled character by character: a Python str is a sequence of  *)
(* one-character strings, so that strip(), split(), join(), int() and      *)
(* str() are computed the way the interpreter computes them.               *)
(***************************************************************************)
EXTENDS Integers, Sequences, FiniteSets, TLC

VARIABLES
    in_text,        \* stack_beatmap: content of the file at input_path
    stack_x,        \* stack_beatmap: argument
    stack_y,        \* stack_beatmap: argument
    suffix,         \* stack_beatmap: argument
    pc,             \* stack_beatmap: position in the function body
    lines,          \* stack_beatmap: local
    idx,            \* stack_beatmap: 1-based position of the for loop in lines
    result,         \* stack_beatmap: local
    in_hitobjects,  \* stack_beatmap: local
    out_file,       \* the file at output_path: [exists, text]
    ret,            \* stack_beatmap: "none" while running, then "True" or "False"
    run,            \* 1 for a chart file, 2 when the input is the output of run 1
    title,          \* parse_title: argument
    p_pc,           \* parse_title: position in the function body
    content,        \* parse_title: local
    parsed,         \* parse_title: returned (artist, title, difficulty)
    songs_exists,   \* find_beatmap_files: songs_folder is set and exists
    songs,          \* find_beatmap_files: os.listdir order of the Songs folder
    q_artist,       \* find_beatmap_files: argument
    q_title,        \* find_beatmap_files: argument
    q_difficulty,   \* find_beatmap_files: argument (None or a string)
    f_pc,           \* find_beatmap_files: position in the function body
    f_i,            \* find_beatmap_files: position of the outer loop
    f_j,            \* find_beatmap_files: position of the inner loop
    found_files,    \* find_beatmap_files: local, then the returned list
    m_pc,           \* main: position in the body of the monitoring loop
    mappers,        \* main: the dict mappers, as its items in insertion order
    selected_mapper,\* main: index in mappers of the selected key, 0 before the selection
    beatmap_file,   \* main: path of the selected file, None before the selection
    typed,          \* main: what input() returned at the prompts so far, stripped
    all_diffs,      \* main: sorted names of the .osu files of the selected folder
    b_i,            \* main: 1-based position of "for diff_file in all_diffs"
    processed,      \* main: counter of the batch
    stack_calls,    \* the calls of stack_beatmap so far: [file, ret]
    written,        \* files written into the selected folder: [name, text]
    reported        \* the count printed after the batch, -1 before

stackVars == <<in_text, stack_x, stack_y, suffix, pc, lines, idx, result,
               in_hitobjects, out_file, ret, run>>

parseVars == <<title, p_pc, content, parsed>>

findVars == <<songs_exists, songs, q_artist, q_title, q_difficulty, f_pc, f_i, f_j,
              found_files>>

mainVars == <<m_pc, mappers, selected_mapper, beatmap_file, typed, all_diffs, b_i,
              processed, stack_calls, written, reported>>

vars == <<stackVars, parseVars, findVars, mainVars>>

(***************************************************************************)
(* Python string primitives                                                *)
(***************************************************************************)

\* characters removed by str.strip() and skipped by int() (within the alphabet used)
Whitespace == {" ", "\t", "\n"}

DigitChars == <<"0", "1", "2", "3", "4", "5", "6", "7", "8", "9">>

IsDigit(c) == \E d \in 1..10 : DigitChars[d] = c

DigitVal(c) == (CHOOSE d \in 1..10 : DigitChars[d] = c) - 1

RECURSIVE LStrip(_)
LStrip(s) ==
    IF s # <<>> /\ Head(s) \in Whitespace THEN LStrip(Tail(s)) ELSE s

RECURSIVE RStrip(_)
RStrip(s) ==
    IF s # <<>> /\ s[Len(s)] \in Whitespace
    THEN RStrip(SubSeq(s, 1, Len(s) - 1))
    ELSE s

\* str.strip()
Strip(s) == RStrip(LStrip(s))

\* str.startswith(p)
StartsWith(s, p) == Len(s) >= Len(p) /\ SubSeq(s, 1, Len(p)) = p

\* c in s
Contains(s, c) == \E i \in 1..Len(s) : s[i] = c

\* s.find(c) + 1 for a one-character c; 0 when absent
IndexOf(s, c) ==
    IF Contains(s, c)
    THEN CHOOSE i \in 1..Len(s) : s[i] = c /\ \A j \in 1..(i - 1) : s[j] # c
    ELSE 0

\* s.rfind(c) + 1
RIndexOf(s, c) ==
    IF Contains(s, c)
    THEN CHOOSE i \in 1..Len(s) : s[i] = c /\ \A j \in (i + 1)..Len(s) : s[j] # c
    ELSE 0

\* str.split(sep) for a one-character separator
RECURSIVE Split(_, _)
Split(s, sep) ==
    IF ~Contains(s, sep)
    THEN <<s>>
    ELSE LET i == IndexOf(s, sep)
         IN  <<SubSeq(s, 1, i - 1)>> \o Split(SubSeq(s, i + 1, Len(s)), sep)

\* str.split(sep, 1)[1], used only where sep is known to occur
AfterFirst(s, sep) == SubSeq(s, IndexOf(s, sep) + 1, Len(s))

\* sep.join(parts)
RECURSIVE Join(_, _)
Join(parts, sep) ==
    IF parts = <<>> THEN <<>>
    ELSE IF Len(parts) = 1 THEN parts[1]
    ELSE parts[1] \o sep \o Join(Tail(parts), sep)

\* "".join(parts), the text file.writelines(parts) produces
RECURSIVE Concat(_)
Concat(parts) ==
    IF parts = <<>> THEN <<>> ELSE Head(parts) \o Concat(Tail(parts))

\* s[n:]
Drop(s, n) == IF n >= Len(s) THEN <<>> ELSE SubSeq(s, n + 1, Len(s))

\* s[:n]
Take(s, n) == IF n >= Len(s) THEN s ELSE SubSeq(s, 1, n)

\* sub in s
ContainsSub(s, sub) ==
    \E i \in 1..(Len(s) - Len(sub) + 1) : SubSeq(s, i, i + Len(sub) - 1) = sub

\* s.find(sub) + 1, used only where sub occurs in s
IndexOfSub(s, sub) ==
    CHOOSE i \in 1..(Len(s) - Len(sub) + 1) :
        /\ SubSeq(s, i, i + Len(sub) - 1) = sub
        /\ \A j \in 1..(i - 1) : SubSeq(s, j, j + Len(sub) - 1) # sub

\* the printable ASCII characters in code point order, from 32 (the grave
\* accent, 96, is spelled out: it is not used in any text of the model)
Ascii ==
    <<" ", "!", "\"", "#", "$", "%", "&", "'", "(", ")", "*", "+", ",", "-", ".", "/", "0",
      "1", "2", "3", "4", "5", "6", "7", "8", "9", ":", ";", "<", "=", ">", "?", "@", "A",
      "B", "C", "D", "E", "F", "G", "H", "I", "J", "K", "L", "M", "N", "O", "P", "Q", "R",
      "S", "T", "U", "V", "W", "X", "Y", "Z", "[", "\\", "]", "^", "_", "grave", "a", "b", "c",
      "d", "e", "f", "g", "h", "i", "j", "k", "l", "m", "n", "o", "p", "q", "r", "s", "t",
      "u", "v", "w", "x", "y", "z", "{", "|", "}", "~">>

\* ord(c); tab and newline sort before every printable character
CodePoint(c) ==
    IF c = "\t" THEN 9
    ELSE IF c = "\n" THEN 10
    ELSE 31 + (CHOOSE k \in 1..Len(Ascii) : Ascii[k] = c)

\* c.lower()
LowerChar(c) ==
    IF CodePoint(c) >= 65 /\ CodePoint(c) <= 90 THEN Ascii[CodePoint(c) + 32 - 31] ELSE c

\* s.lower()
Lower(s) == [k \in 1..Len(s) |-> LowerChar(s[k])]

\* a < b on str: code point order, a proper prefix first
RECURSIVE StrLess(_, _)
StrLess(a, b) ==
    IF b = <<>> THEN FALSE
    ELSE IF a = <<>> THEN TRUE
    ELSE IF Head(a) # Head(b) THEN CodePoint(Head(a)) < CodePoint(Head(b))
    ELSE StrLess(Tail(a), Tail(b))

\* None and a value, for the variables that hold either
None == [some |-> FALSE, v |-> <<>>]

Some(s) == [some |-> TRUE, v |-> s]

\* the truth value Python gives an optional string
Truthy(o) == o.some /\ o.v # <<>>

\* the digits-and-underscores body int() accepts: digits, single
\* underscores only between digits
IsDigitBody(b) ==
    /\ b # <<>>
    /\ \A i \in 1..Len(b) : IsDigit(b[i]) \/ b[i] = "_"
    /\ b[1] # "_"
    /\ b[Len(b)] # "_"
    /\ \A i \in 1..(Len(b) - 1) : ~(b[i] = "_" /\ b[i + 1] = "_")

SignStripped(t) ==
    IF t # <<>> /\ Head(t) \in {"+", "-"} THEN Tail(t) ELSE t

\* TRUE iff int(s) returns, FALSE iff it raises ValueError
IsInt(s) == IsDigitBody(SignStripped(Strip(s)))

RECURSIVE DigitsVal(_, _)
DigitsVal(b, acc) ==
    IF b = <<>> THEN acc
    ELSE IF Head(b) = "_" THEN DigitsVal(Tail(b), acc)
    ELSE DigitsVal(Tail(b), 10 * acc + DigitVal(Head(b)))

\* int(s), for s with IsInt(s)
ParseInt(s) ==
    LET t == Strip(s)
        v == DigitsVal(SignStripped(t), 0)
    IN  IF t # <<>> /\ Head(t) = "-" THEN 0 - v ELSE v

RECURSIVE NatToStr(_)
NatToStr(n) ==
    IF n < 10 THEN <<DigitChars[n + 1]>>
    ELSE NatToStr(n \div 10) \o <<DigitChars[(n % 10) + 1]>>

\* str(n)
IntToStr(n) == IF n < 0 THEN <<"-">> \o NatToStr(0 - n) ELSE NatToStr(n)

\* f.readlines() on text whose only line terminator is "\n"
RECURSIVE readlines(_)
readlines(text) ==
    IF text = <<>> THEN <<>>
    ELSE LET i == IndexOf(text, "\n")
         IN  IF i = 0 THEN <<text>>
             ELSE <<SubSeq(text, 1, i)>> \o readlines(SubSeq(text, i + 1, Len(text)))

(***************************************************************************)
(* stack_beatmap: text constants                                           *)
(***************************************************************************)

HitObjectsMarker == <<"[", "H", "i", "t", "O", "b", "j", "e", "c", "t", "s", "]">>

VersionKey == <<"V", "e", "r", "s", "i", "o", "n", ":">>

StackLeniencyKey == <<"S", "t", "a", "c", "k", "L", "e", "n", "i", "e", "n", "c", "y", ":">>

(***************************************************************************)
(* stack_beatmap: the per-line transformation                              *)
(***************************************************************************)

\* f"Version:{original} [{suffix}]\n"
VersionLine(stripped, suf) ==
    VersionKey \o Strip(AfterFirst(stripped, ":")) \o <<" ", "[">> \o suf \o <<"]", "\n">>

\* "StackLeniency:0\n"
LeniencyLine == StackLeniencyKey \o <<"0", "\n">>

\* the two header rewrites at the top of the loop body
HeaderRewrite(line, suf) ==
    LET stripped == Strip(line)
        line1 == IF StartsWith(stripped, VersionKey) THEN VersionLine(stripped, suf) ELSE line
    IN  IF StartsWith(stripped, StackLeniencyKey) THEN LeniencyLine ELSE line1

\* (obj_type & 2) != 0 on a Python int (two's complement, floor division)
IsSlider(obj_type) == (obj_type \div 2) % 2 = 1

\* NewPoint with the subtraction of the old anchor left out
NewPointNoOffset(point, old_x, old_y, sx, sy) ==
    IF Contains(point, ":")
    THEN LET point_parts == Split(point, ":")
         IN  IF Len(point_parts) = 2
             THEN IF IsInt(point_parts[1]) /\ IsInt(point_parts[2])
                  THEN <<IntToStr(sx + ParseInt(point_parts[1])) \o <<":">>
                         \o IntToStr(sy + ParseInt(point_parts[2]))>>
                  ELSE <<point>>
             ELSE <<>>
    ELSE <<point>>

\* what one curve token contributes to new_curve_points: the translated
\* point, the token itself, or nothing
NewPoint(point, old_x, old_y, sx, sy) ==
    IF Contains(point, ":")
    THEN LET point_parts == Split(point, ":")
         IN  IF Len(point_parts) = 2
             THEN IF IsInt(point_parts[1]) /\ IsInt(point_parts[2])
                  THEN LET offset_x == ParseInt(point_parts[1]) - old_x
                           offset_y == ParseInt(point_parts[2]) - old_y
                       IN  <<IntToStr(sx + offset_x) \o <<":">> \o IntToStr(sy + offset_y)>>
                  ELSE <<point>>
             ELSE <<>>
    ELSE <<point>>

RECURSIVE NewPoints(_, _, _, _, _)
NewPoints(points, old_x, old_y, sx, sy) ==
    IF points = <<>> THEN <<>>
    ELSE NewPoint(Head(points), old_x, old_y, sx, sy)
         \o NewPoints(Tail(points), old_x, old_y, sx, sy)

\* the value assigned to parts[5]
NewCurve(curve_data, old_x, old_y, sx, sy) ==
    IF Contains(curve_data, "|")
    THEN LET curve_parts == Split(curve_data, "|")
         IN  Join(<<curve_parts[1]>> \o NewPoints(Tail(curve_parts), old_x, old_y, sx, sy),
                  <<"|">>)
    ELSE curve_data

\* OldAnchor with x and y exchanged
OldAnchorSwapped(parts) == <<ParseInt(parts[2]), ParseInt(parts[1])>>

\* the anchor that curve offsets are measured from
OldAnchor(parts) == <<ParseInt(parts[1]), ParseInt(parts[2])>>

\* parts after the in-place updates, for parts whose x, y and type are integers
NewParts(parts, sx, sy) ==
    LET old == OldAnchor(parts)
        moved == [parts EXCEPT ![1] = IntToStr(sx), ![2] = IntToStr(sy)]
    IN  IF IsSlider(ParseInt(parts[4])) /\ Len(parts) >= 6
        THEN [moved EXCEPT ![6] = NewCurve(parts[6], old[1], old[2], sx, sy)]
        ELSE moved

\* ",".join(parts) + "\n"
Reassemble(parts) == Join(parts, <<",">>) \o <<"\n">>

\* int() raises ValueError on x, y or type
ObjectRaises(parts) == ~(IsInt(parts[1]) /\ IsInt(parts[2]) /\ IsInt(parts[4]))

\* len(parts) >= 5
IsObjectRecord(parts) == Len(parts) >= 5

\* ClosesSection that recognises only a line that is "[" alone
ClosesSectionExact(stripped) == stripped = <<"[">>

\* stripped.startswith("[") for a line met inside the section
ClosesSection(stripped) == StartsWith(stripped, <<"[">>)

\* One iteration of the loop body: the line appended to result, the new
\* in_hitobjects, or raised = TRUE when the iteration raises.
TransformLine(line, in_hit, sx, sy, suf) ==
    LET stripped == Strip(line)
        line2 == HeaderRewrite(line, suf)
        parts == Split(stripped, ",")
    IN  IF stripped = HitObjectsMarker
        THEN [raised |-> FALSE, line |-> line2, in_hitobjects |-> TRUE]
        ELSE IF ~in_hit
        THEN [raised |-> FALSE, line |-> line2, in_hitobjects |-> FALSE]
        ELSE IF ClosesSection(stripped)
        THEN [raised |-> FALSE, line |-> line2, in_hitobjects |-> FALSE]
        ELSE IF stripped = <<>>
        THEN [raised |-> FALSE, line |-> line2, in_hitobjects |-> TRUE]
        ELSE IF ~IsObjectRecord(parts)
        THEN [raised |-> FALSE, line |-> line2, in_hitobjects |-> TRUE]
        ELSE IF ObjectRaises(parts)
        THEN [raised |-> TRUE, line |-> line2, in_hitobjects |-> TRUE]
        ELSE [raised |-> FALSE, line |-> Reassemble(NewParts(parts, sx, sy)),
              in_hitobjects |-> TRUE]

(***************************************************************************)
(* stack_beatmap: inputs                                                   *)
(***************************************************************************)

\* most lines a generated chart file holds
MaxLines == 3

\* line bodies chart files are built from
SectionLine == <<"[", "E", "]">>
VersionInput == <<"V", "e", "r", "s", "i", "o", "n", ":", "H">>
LeniencyInput == <<"S", "t", "a", "c", "k", "L", "e", "n", "i", "e", "n", "c", "y", ":", "7">>
CircleLine == <<"1", "0", ",", "1", "5", ",", "5", ",", "1", ",", "0", " ">>
SliderLine ==
    <<"1", "0", "0", ",", "1", "5", "0", ",", "5", "0", "0", ",", "2", ",", "0", ",",
      "B", "|", "1", "2", "0", ":", "1", "6", "0", "|", "1", "4", "0", ":", "1", "7", "0",
      ",", "1">>
OddSliderLine ==
    <<"+", "1", "0", ",", " ", "1", "5", ",", "5", ",", "6", ",", "0", ",",
      "B", "|", "1", ":", "2", ":", "3", "|", "x", "|", "1", ":", "y", "|",
      " ", "1", "2", ":", "+", "1", "6">>
ShortLine == <<"1", ",", "2", ",", "3", ",", "4">>
BadLine == <<"x", ",", "1", "5", ",", "5", ",", "1", ",", "0">>

LineBodies ==
    {HitObjectsMarker, SectionLine, <<>>, VersionInput, LeniencyInput, CircleLine,
     SliderLine, OddSliderLine, ShortLine, BadLine}

\* (stack_x, stack_y, suffix): the defaults and one other setting
Settings ==
    {<<256, 192, <<"s", "t", "a", "c", "k", "e", "d">>>>,
     <<0, -3, <<"a", "b">>>>}

\* the text of a file whose lines have these bodies, with or without a final newline
FileText(bodies, final_newline) ==
    LET n == Len(bodies)
    IN  Concat([i \in 1..n |->
                  IF i < n \/ final_newline THEN bodies[i] \o <<"\n">> ELSE bodies[i]])

ChartTexts ==
    {FileText(b, nl) : b \in UNION {[1..n -> LineBodies] : n \in 1..MaxLines},
                       nl \in BOOLEAN}

NoFile == [exists |-> FALSE, text |-> <<>>]

\* value of parse_title's result before it returns
NoResult == [artist |-> None, title |-> None, difficulty |-> None]

\* the variables of a function that is not being run
StackIdle ==
    /\ in_text = <<>>
    /\ stack_x = 256
    /\ stack_y = 192
    /\ suffix = <<>>
    /\ pc = "idle"
    /\ lines = <<>>
    /\ idx = 1
    /\ result = <<>>
    /\ in_hitobjects = FALSE
    /\ out_file = NoFile
    /\ ret = "none"
    /\ run = 1

ParseIdle ==
    /\ title = <<>>
    /\ p_pc = "idle"
    /\ content = <<>>
    /\ parsed = NoResult

FindIdle ==
    /\ songs_exists = FALSE
    /\ songs = <<>>
    /\ q_artist = <<>>
    /\ q_title = <<>>
    /\ q_difficulty = None
    /\ f_pc = "idle"
    /\ f_i = 1
    /\ f_j = 1
    /\ found_files = <<>>

MainIdle ==
    /\ m_pc = "idle"
    /\ mappers = <<>>
    /\ selected_mapper = 0
    /\ beatmap_file = None
    /\ typed = <<>>
    /\ all_diffs = <<>>
    /\ b_i = 1
    /\ processed = 0
    /\ stack_calls = <<>>
    /\ written = <<>>
    /\ reported = -1

(***************************************************************************)
(* stack_beatmap: the function as a state machine                          *)
(***************************************************************************)

InitStack ==
    /\ in_text \in ChartTexts
    /\ \E s \in Settings : stack_x = s[1] /\ stack_y = s[2] /\ suffix = s[3]
    /\ pc = "open_in"
    /\ lines = <<>>
    /\ idx = 1
    /\ result = <<>>
    /\ in_hitobjects = FALSE
    /\ out_file = NoFile
    /\ ret = "none"
    /\ run = 1
    /\ ParseIdle
    /\ FindIdle
    /\ MainIdle

\* with open(input_path) ...: lines = f.readlines(); result = []; in_hitobjects = False
ReadInput ==
    /\ pc = "open_in"
    /\ lines' = readlines(in_text)
    /\ idx' = 1
    /\ result' = <<>>
    /\ in_hitobjects' = FALSE
    /\ pc' = "loop"
    /\ UNCHANGED <<in_text, stack_x, stack_y, suffix, out_file, ret, run>>
    /\ UNCHANGED <<parseVars, findVars, mainVars>>

\* open() or readlines() raises; the except clause returns False
ReadInputFails ==
    /\ pc = "open_in"
    /\ ret' = "False"
    /\ pc' = "done"
    /\ UNCHANGED <<in_text, stack_x, stack_y, suffix, lines, idx, result,
                   in_hitobjects, out_file, run>>
    /\ UNCHANGED <<parseVars, findVars, mainVars>>

\* one iteration of "for line in lines"
ProcessLine ==
    /\ pc = "loop"
    /\ idx <= Len(lines)
    /\ LET r == TransformLine(lines[idx], in_hitobjects, stack_x, stack_y, suffix)
       IN  IF r.raised
           THEN /\ ret' = "False"
                /\ pc' = "done"
                /\ UNCHANGED <<idx, result, in_hitobjects>>
           ELSE /\ result' = Append(result, r.line)
                /\ in_hitobjects' = r.in_hitobjects
                /\ idx' = idx + 1
                /\ UNCHANGED <<ret, pc>>
    /\ UNCHANGED <<in_text, stack_x, stack_y, suffix, lines, out_file, run>>
    /\ UNCHANGED <<parseVars, findVars, mainVars>>

\* open(output_path, "w") after the loop: the file is created or truncated
OpenOutput ==
    /\ pc = "loop"
    /\ idx > Len(lines)
    /\ out_file' = [exists |-> TRUE, text |-> <<>>]
    /\ pc' = "write"
    /\ UNCHANGED <<in_text, stack_x, stack_y, suffix, lines, idx, result,
                   in_hitobjects, ret, run>>
    /\ UNCHANGED <<parseVars, findVars, mainVars>>

\* open(output_path, "w") raises; the except clause returns False
OpenOutputFails ==
    /\ pc = "loop"
    /\ idx > Len(lines)
    /\ ret' = "False"
    /\ pc' = "done"
    /\ UNCHANGED <<in_text, stack_x, stack_y, suffix, lines, idx, result,
                   in_hitobjects, out_file, run>>
    /\ UNCHANGED <<parseVars, findVars, mainVars>>

\* f.writelines(result), close, return True
WriteOutput ==
    /\ pc = "write"
    /\ out_file' = [exists |-> TRUE, text |-> Concat(result)]
    /\ ret' = "True"
    /\ pc' = "done"
    /\ UNCHANGED <<in_text, stack_x, stack_y, suffix, lines, idx, result,
                   in_hitobjects, run>>
    /\ UNCHANGED <<parseVars, findVars, mainVars>>

\* writelines() or the flush on close raises after some of the lines reached
\* the file; the except clause returns False
WriteOutputFails ==
    /\ pc = "write"
    /\ \E k \in 0..Len(result) :
         out_file' = [exists |-> TRUE, text |-> Concat(SubSeq(result, 1, k))]
    /\ ret' = "False"
    /\ pc' = "done"
    /\ UNCHANGED <<in_text, stack_x, stack_y, suffix, lines, idx, result,
                   in_hitobjects, run>>
    /\ UNCHANGED <<parseVars, findVars, mainVars>>

\* stack_beatmap is called again, on the file the first call wrote, with the
\* same settings and a new output path
Restack ==
    /\ pc = "done"
    /\ ret = "True"
    /\ run = 1
    /\ in_text' = out_file.text
    /\ out_file' = NoFile
    /\ run' = 2
    /\ pc' = "open_in"
    /\ ret' = "none"
    /\ lines' = <<>>
    /\ idx' = 1
    /\ result' = <<>>
    /\ in_hitobjects' = FALSE
    /\ UNCHANGED <<stack_x, stack_y, suffix>>
    /\ UNCHANGED <<parseVars, findVars, mainVars>>

NextStack ==
    \/ ReadInput
    \/ ReadInputFails
    \/ ProcessLine
    \/ OpenOutput
    \/ OpenOutputFails
    \/ WriteOutput
    \/ WriteOutputFails
    \/ Restack

SpecStack == InitStack /\ [][NextStack]_vars

(***************************************************************************)
(* stack_beatmap: vocabulary of the properties                             *)
(***************************************************************************)

InLines == readlines(in_text)

OutLines == readlines(out_file.text)

Succeeded == pc = "done" /\ ret = "True"

EndsWithNewline(line) == line # <<>> /\ line[Len(line)] = "\n"

\* a line without its terminator
Body(line) == IF EndsWithNewline(line) THEN SubSeq(line, 1, Len(line) - 1) ELSE line

\* the comma-separated fields of a line
Fields(line) == Split(Body(line), ",")

IsMarkerLine(line) == Strip(line) = HitObjectsMarker

IsBracketLine(line) == StartsWith(Strip(line), <<"[">>)

IsVersionLine(line) == StartsWith(Strip(line), VersionKey)

IsLeniencyLine(line) == StartsWith(Strip(line), StackLeniencyKey)

\* line i lies inside the object section: a [HitObjects] line precedes it with
\* no line starting with "[" in between, and line i does not start with "["
InSection(ls, i) ==
    /\ ~IsBracketLine(ls[i])
    /\ \E j \in 1..(i - 1) :
         /\ IsMarkerLine(ls[j])
         /\ \A k \in (j + 1)..(i - 1) : ~IsBracketLine(ls[k])

\* line i is a non-blank line of the object section with at least 5 fields
IsObjectAt(ls, i) ==
    /\ InSection(ls, i)
    /\ Strip(ls[i]) # <<>>
    /\ Len(Fields(ls[i])) >= 5

\* line i is an object whose type has bit value 2 and whose 6th field holds "|"
IsPathAt(ls, i) ==
    /\ IsObjectAt(ls, i)
    /\ Len(Fields(ls[i])) >= 6
    /\ IsInt(Fields(ls[i])[4])
    /\ (ParseInt(Fields(ls[i])[4]) \div 2) % 2 = 1
    /\ Contains(Fields(ls[i])[6], "|")

\* the "|"-delimited tokens of the curve field of line i
CurveTokens(ls, i) == Split(Strip(Fields(ls[i])[6]), "|")

\* a token of the form intX:intY
IsIntPair(tok) ==
    LET p == Split(tok, ":")
    IN  Len(p) = 2 /\ IsInt(p[1]) /\ IsInt(p[2])

RECURSIVE IntPairsOf(_)
IntPairsOf(toks) ==
    IF toks = <<>> THEN <<>>
    ELSE IF IsIntPair(Head(toks))
    THEN <<<<ParseInt(Split(Head(toks), ":")[1]), ParseInt(Split(Head(toks), ":")[2])>>>>
         \o IntPairsOf(Tail(toks))
    ELSE IntPairsOf(Tail(toks))

RECURSIVE TextPairsOf(_)
TextPairsOf(toks) ==
    IF toks = <<>> THEN <<>>
    ELSE IF IsIntPair(Head(toks))
    THEN <<Head(toks)>> \o TextPairsOf(Tail(toks))
    ELSE TextPairsOf(Tail(toks))

\* the text "a:b" of a point
PointText(a, b) == IntToStr(a) \o <<":">> \o IntToStr(b)

(***************************************************************************)
(* Claims about stack_beatmap                                              *)
(***************************************************************************)

\* C1: in every path object of the object section the curve-type token is
\* unchanged and the intX:intY tokens that follow it come out, in order, as
\* (stackX + (intX - originalX)):(stackY + (intY - originalY)), originalX and
\* originalY being the x, y fields of the input line.
C1_CurvePointsTranslated ==
    LET ins == InLines
        outs == OutLines
    IN
        Succeeded =>
            \A i \in 1..Len(ins) :
                IsPathAt(ins, i) =>
                    LET f == Fields(ins[i])
                        ox == ParseInt(f[1])
                        oy == ParseInt(f[2])
                        inTok == CurveTokens(ins, i)
                        outTok == CurveTokens(outs, i)
                        pts == IntPairsOf(Tail(inTok))
                    IN  /\ outTok[1] = inTok[1]
                        /\ TextPairsOf(Tail(outTok)) =
                             [k \in 1..Len(pts) |->
                                PointText(stack_x + (pts[k][1] - ox), stack_y + (pts[k][2] - oy))]

\* a first run that succeeded on a path object with at least two points that
\* do not sit on the anchor
C1_Witness ==
    LET ins == InLines
    IN
        /\ Succeeded
        /\ run = 1
        /\ \E i \in 1..Len(ins) :
             /\ IsPathAt(ins, i)
             /\ Len(IntPairsOf(Tail(CurveTokens(ins, i)))) >= 2
             /\ IntPairsOf(Tail(CurveTokens(ins, i)))[1] #
                  <<ParseInt(Fields(ins[i])[1]), ParseInt(Fields(ins[i])[2])>>

\* C2: on success the output has as many lines as the input, every object
\* line of the object section keeps its number of comma-separated fields, and
\* in an object line with at least 5 fields only field 0, field 1 and (for a
\* path-type object) field 5 differ from the input.
C2_OnlyCoordinateFieldsDiffer ==
    LET ins == InLines
        outs == OutLines
    IN
        Succeeded =>
            /\ Len(outs) = Len(ins)
            /\ \A i \in 1..Len(ins) :
                 (/\ InSection(ins, i)
                  /\ Strip(ins[i]) # <<>>
                  /\ ~IsVersionLine(ins[i])
                  /\ ~IsLeniencyLine(ins[i])) =>
                    LET f == Fields(ins[i])
                        g == Fields(outs[i])
                        path == Len(f) >= 5 /\ IsInt(f[4]) /\ (ParseInt(f[4]) \div 2) % 2 = 1
                    IN  /\ Len(g) = Len(f)
                        /\ Len(f) >= 5 =>
                             \A k \in 1..Len(f) :
                                (k \notin {1, 2} /\ ~(k = 6 /\ path)) => g[k] = f[k]

\* C3: on success the x, y fields of a line are stackX, stackY exactly when
\* the line is a non-blank line of the object section with at least 5 fields;
\* every other line that is not a Version: or StackLeniency: line is emitted
\* as read (the closing line, blank lines, comma-separated lines outside the
\* section), and a file without a [HitObjects] line has no other line changed.
C3_RewrittenExactlyInSection ==
    LET ins == InLines
        outs == OutLines
    IN
        Succeeded =>
            /\ Len(outs) = Len(ins)
            /\ \A i \in 1..Len(ins) :
                 IF IsObjectAt(ins, i)
                 THEN /\ Fields(outs[i])[1] = IntToStr(stack_x)
                      /\ Fields(outs[i])[2] = IntToStr(stack_y)
                 ELSE IF IsVersionLine(ins[i])
                 THEN IsVersionLine(outs[i])
                 ELSE IF IsLeniencyLine(ins[i])
                 THEN IsLeniencyLine(outs[i])
                 ELSE outs[i] = ins[i]
            /\ (\A j \in 1..Len(ins) : ~IsMarkerLine(ins[j])) =>
                 \A i \in 1..Len(ins) :
                    \/ IsVersionLine(ins[i])
                    \/ IsLeniencyLine(ins[i])
                    \/ outs[i] = ins[i]

\* a first run that succeeded on a file holding an object that was moved and,
\* outside the section, a 5-field line with other coordinates
C3_Witness ==
    LET ins == InLines
    IN
        /\ Succeeded
        /\ run = 1
        /\ \E i, j \in 1..Len(ins) :
             /\ IsObjectAt(ins, i)
             /\ ~IsObjectAt(ins, j)
             /\ Len(Fields(ins[j])) >= 5
             /\ Fields(ins[j])[2] # IntToStr(stack_y)

\* C4: a failure while reading, transforming or writing makes stack_beatmap
\* return False and leaves no output file; the output file is opened only
\* after every input line has been transformed.
C4_FailureLeavesNoOutput ==
    /\ (pc = "done" /\ ret = "False") => ~out_file.exists
    /\ pc = "done" => ret \in {"True", "False"}
    /\ out_file.exists => (idx > Len(lines) /\ Len(result) = Len(lines))

\* C8: in the curve field of a path object every token after the curve type
\* that is not of the form int:int is emitted unchanged at the same position,
\* so the curve field keeps its number of tokens.
C8_OtherTokensKept ==
    LET ins == InLines
        outs == OutLines
    IN
        Succeeded =>
            \A i \in 1..Len(ins) :
                IsPathAt(ins, i) =>
                    LET inTok == CurveTokens(ins, i)
                        outTok == CurveTokens(outs, i)
                    IN  /\ Len(outTok) = Len(inTok)
                        /\ \A j \in 2..Len(inTok) :
                             ~IsIntPair(inTok[j]) => outTok[j] = inTok[j]

\* C9: every emitted line ends with the terminator of the input line it came
\* from, and a line that is neither a Version: or StackLeniency: line nor an
\* object of the object section is emitted exactly as read.
C9_TerminatorsPreserved ==
    LET ins == InLines
        outs == OutLines
    IN
        Succeeded =>
            /\ Len(outs) = Len(ins)
            /\ \A i \in 1..Len(ins) :
                 /\ EndsWithNewline(outs[i]) = EndsWithNewline(ins[i])
                 /\ (/\ ~IsVersionLine(ins[i])
                     /\ ~IsLeniencyLine(ins[i])
                     /\ ~IsObjectAt(ins, i)) => outs[i] = ins[i]

\* C10: a second run on the output of a successful run, with the same stackX,
\* stackY and suffix, emits every object line as it reads it, keeps
\* StackLeniency:0 and appends a second " [suffix]" to each Version: line.
C10_SecondRunKeepsObjects ==
    LET ins == InLines
        outs == OutLines
    IN
        (run = 2 /\ Succeeded) =>
            /\ Len(outs) = Len(ins)
            /\ \A i \in 1..Len(ins) :
                 /\ IsObjectAt(ins, i) => outs[i] = ins[i]
                 /\ IsLeniencyLine(ins[i]) =>
                      (/\ ins[i] = StackLeniencyKey \o <<"0", "\n">>
                       /\ outs[i] = ins[i])
                 /\ IsVersionLine(ins[i]) =>
                      (/\ Body(outs[i]) = Body(ins[i]) \o <<" ", "[">> \o suffix \o <<"]">>
                       /\ outs[i] # ins[i])

\* a second run that succeeded on a file with a path object whose points do
\* not sit on the anchor, a Version: line and a StackLeniency: line
C10_Witness ==
    LET ins == InLines
    IN
        /\ run = 2
        /\ Succeeded
        /\ \E i \in 1..Len(ins) :
             /\ IsPathAt(ins, i)
             /\ \E pt \in {IntPairsOf(Tail(CurveTokens(ins, i)))[k] :
                             k \in 1..Len(IntPairsOf(Tail(CurveTokens(ins, i))))} :
                  pt # <<stack_x, stack_y>>
        /\ \E i \in 1..Len(ins) : IsVersionLine(ins[i])

(***************************************************************************)
(* OsuBeatmapDetector.parse_title                                          *)
(***************************************************************************)

OsuDashPrefix == <<"o", "s", "u", "!", " ", "-", " ">>

OsuPrefix == <<"o", "s", "u", "!">>

DashSpace == <<"-", " ">>

SpaceDashSpace == <<" ", "-", " ">>

\* title[5:] in the branch taken when the title starts with "osu!"
AfterOsu(t) == Drop(t, 5)

\* content after the leading marker has been removed
StripMarker(t) ==
    IF StartsWith(t, OsuDashPrefix)
    THEN Drop(t, 7)
    ELSE IF StartsWith(t, OsuPrefix)
    THEN LET c == Strip(AfterOsu(t))
         IN  IF StartsWith(c, DashSpace) THEN Drop(c, 2) ELSE c
    ELSE t

\* the difficulty and the shortened content taken from the last "[" and "]"
BracketSplit(c) ==
    LET bracket_start == RIndexOf(c, "[")
        bracket_end == RIndexOf(c, "]")
    IN  IF Contains(c, "[") /\ Contains(c, "]") /\ bracket_start < bracket_end
        THEN [difficulty |-> Some(Strip(SubSeq(c, bracket_start + 1, bracket_end - 1))),
              content |-> Strip(Take(c, bracket_start - 1))]
        ELSE [difficulty |-> None, content |-> c]

\* the returned triple, from content after the marker was removed
SplitFields(c) ==
    LET b == BracketSplit(c)
    IN  IF ContainsSub(b.content, SpaceDashSpace)
        THEN LET i == IndexOfSub(b.content, SpaceDashSpace)
             IN  [artist |-> Some(Strip(Take(b.content, i - 1))),
                  title |-> Some(Strip(Drop(b.content, i + 2))),
                  difficulty |-> b.difficulty]
        ELSE NoResult

\* window titles: a marker, a body and a tail
TitlePrefixes ==
    {OsuDashPrefix, OsuPrefix, OsuPrefix \o <<" ">>, OsuPrefix \o DashSpace,
     OsuPrefix \o <<" ", " ">> \o DashSpace, <<>>}

TitleBodies ==
    {<<"A", "r", " ", "-", " ", "T">>,
     <<"A", " ", "-", " ", "B", " ", "-", " ", "C">>,
     <<"R", "a", "n", "d", "o", "m">>,
     <<>>}

TitleTails ==
    {<<>>, <<" ", "[", "X", "]">>, <<" ", "[", " ", "X", " ">>, <<"]", " ", "[">>,
     <<" ", "[", "a", "]", " ", "[", "X", "]">>}

Titles == {p \o b \o t : p \in TitlePrefixes, b \in TitleBodies, t \in TitleTails}

InitParse ==
    /\ title \in Titles
    /\ p_pc = "marker"
    /\ content = <<>>
    /\ parsed = NoResult
    /\ StackIdle
    /\ FindIdle
    /\ MainIdle

\* "if not title: return None, None, None"
ParseEmpty ==
    /\ p_pc = "marker"
    /\ title = <<>>
    /\ parsed' = NoResult
    /\ p_pc' = "done"
    /\ UNCHANGED <<title, content>>
    /\ UNCHANGED <<stackVars, findVars, mainVars>>

\* the if / elif / else that removes the marker
ParseMarker ==
    /\ p_pc = "marker"
    /\ title # <<>>
    /\ content' = StripMarker(title)
    /\ p_pc' = "fields"
    /\ UNCHANGED <<title, parsed>>
    /\ UNCHANGED <<stackVars, findVars, mainVars>>

\* difficulty extraction, artist / title split and return
ParseFields ==
    /\ p_pc = "fields"
    /\ parsed' = SplitFields(content)
    /\ p_pc' = "done"
    /\ UNCHANGED <<title, content>>
    /\ UNCHANGED <<stackVars, findVars, mainVars>>

NextParse ==
    \/ ParseEmpty
    \/ ParseMarker
    \/ ParseFields

SpecParse == InitParse /\ [][NextParse]_vars

(***************************************************************************)
(* Claims about parse_title                                                *)
(***************************************************************************)

\* the title without its marker as the claim words it: without "osu! - ",
\* else without "osu!" and a "- " that follows it, else the title; blanks
\* between "osu!" and "- " are skipped when skip_blanks is set
MarkerRemoved(t, skip_blanks) ==
    IF StartsWith(t, OsuDashPrefix)
    THEN Drop(t, 7)
    ELSE IF StartsWith(t, OsuPrefix)
    THEN LET c == IF skip_blanks THEN LStrip(Drop(t, 4)) ELSE Drop(t, 4)
         IN  IF StartsWith(c, DashSpace) THEN Drop(c, 2) ELSE c
    ELSE t

\* s without its whitespace
RECURSIVE NonBlank(_)
NonBlank(s) ==
    IF s = <<>> THEN <<>>
    ELSE IF Head(s) \in Whitespace THEN NonBlank(Tail(s))
    ELSE <<Head(s)>> \o NonBlank(Tail(s))

ArtistTitleX ==
    OsuPrefix \o <<"A", "r", " ", "-", " ", "T">> \o <<" ", "[", "X", "]">>

\* C7: parse_title removes "osu! - " (7 characters), else "osu!" (4
\* characters) and a following "- ", else nothing; no character of the artist
\* is lost (blanks aside), so "osu!Ar - T [X]" parses with artist "Ar".
C7_MarkerRemovedExactly ==
    /\ p_pc = "fields" =>
         NonBlank(content) \in {NonBlank(MarkerRemoved(title, b)) : b \in BOOLEAN}
    /\ (p_pc = "done" /\ title = ArtistTitleX) => parsed.artist = Some(<<"A", "r">>)

(***************************************************************************)
(* OsuBeatmapDetector.find_beatmap_files                                   *)
(***************************************************************************)

ArtistKey == <<"A", "r", "t", "i", "s", "t", ":">>

TitleKey == <<"T", "i", "t", "l", "e", ":">>

CreatorKey == <<"C", "r", "e", "a", "t", "o", "r", ":">>

\* lines[:50]
HeaderLimit == 50

\* the value the header loop leaves in the variable of this key: that of the
\* last line among ls that starts with the key, None when there is none
RECURSIVE HeaderValue(_, _)
HeaderValue(ls, key) ==
    IF ls = <<>> THEN None
    ELSE LET line == Strip(ls[Len(ls)])
         IN  IF StartsWith(line, key)
             THEN Some(Strip(AfterFirst(line, ":")))
             ELSE HeaderValue(SubSeq(ls, 1, Len(ls) - 1), key)

\* artist_match or title_match in place of artist_match and title_match
IsMatchEither(file_artist, file_title, artist_normalized, title_normalized) ==
    \/ Lower(Strip(file_artist)) = artist_normalized
    \/ Lower(Strip(file_title)) = title_normalized

\* artist_match and title_match
IsMatch(file_artist, file_title, artist_normalized, title_normalized) ==
    /\ Lower(Strip(file_artist)) = artist_normalized
    /\ Lower(Strip(file_title)) = title_normalized

\* is_exact_match of a matching file
IsExact(file_version, difficulty) ==
    /\ Truthy(difficulty)
    /\ Truthy(file_version)
    /\ Lower(Strip(file_version.v)) = Lower(Strip(difficulty.v))

\* what the body of the inner loop appends to found_files for a readable
\* .osu file: nothing or one tuple
FoundEntry(file, folder_name, artist, song_title, difficulty) ==
    LET head == Take(file.lines, HeaderLimit)
        file_artist == HeaderValue(head, ArtistKey)
        file_title == HeaderValue(head, TitleKey)
        file_version == HeaderValue(head, VersionKey)
        file_creator == HeaderValue(head, CreatorKey)
    IN  IF /\ Truthy(file_artist)
           /\ Truthy(file_title)
           /\ IsMatch(file_artist.v, file_title.v, Strip(Lower(artist)), Strip(Lower(song_title)))
        THEN <<[path |-> <<folder_name, file.name>>,
                version |-> file_version,
                exact |-> IsExact(file_version, difficulty),
                creator |-> file_creator,
                folder |-> folder_name]>>
        ELSE <<>>

\* x[1] or ""
VersionOrEmpty(e) == IF Truthy(e.version) THEN e.version.v ELSE <<>>

\* key(a) < key(b) for the key (not x[2], x[1] or "")
KeyLess(a, b) ==
    \/ a.exact /\ ~b.exact
    \/ a.exact = b.exact /\ StrLess(VersionOrEmpty(a), VersionOrEmpty(b))

\* e put into a sorted list behind every element whose key is not greater
RECURSIVE InsertSorted(_, _)
InsertSorted(sorted, e) ==
    IF sorted = <<>> THEN <<e>>
    ELSE IF KeyLess(e, Head(sorted)) THEN <<e>> \o sorted
    ELSE <<Head(sorted)>> \o InsertSorted(Tail(sorted), e)

\* list.sort(key=...): stable, ascending
RECURSIVE SortFound(_)
SortFound(found) ==
    IF found = <<>> THEN <<>>
    ELSE InsertSorted(SortFound(SubSeq(found, 1, Len(found) - 1)), found[Len(found)])

(***************************************************************************)
(* find_beatmap_files: inputs                                              *)
(***************************************************************************)

\* most files a generated Songs folder holds
MaxFiles == 3

HeaderLine(key, value) == key \o value \o <<"\n">>

Chart1 ==
    <<HeaderLine(ArtistKey, <<"A", "b">>), HeaderLine(TitleKey, <<"T">>),
      HeaderLine(VersionKey, <<"a", "p", "p", "l", "e">>), HeaderLine(CreatorKey, <<"m">>)>>

Chart2 ==
    <<HeaderLine(ArtistKey, <<" ", "a", "b">>), HeaderLine(TitleKey, <<"t">>),
      HeaderLine(VersionKey, <<"B", "a", "n", "a", "n", "a">>), HeaderLine(CreatorKey, <<"n">>)>>

Chart3 == <<HeaderLine(ArtistKey, <<"A", "b">>), HeaderLine(TitleKey, <<"T">>)>>

Chart4 ==
    <<HeaderLine(ArtistKey, <<"C", "d">>), HeaderLine(TitleKey, <<"T">>),
      HeaderLine(VersionKey, <<"H", "a", "r", "d">>), HeaderLine(CreatorKey, <<"m">>)>>

Chart5 ==
    <<HeaderLine(TitleKey, <<"T">>), HeaderLine(VersionKey, <<"a", "p", "p", "l", "e">>)>>

\* the Title: line is line 51
Chart6 ==
    <<HeaderLine(ArtistKey, <<"A", "b">>)>> \o [k \in 1..(HeaderLimit - 1) |-> <<"\n">>]
    \o <<HeaderLine(TitleKey, <<"T">>)>>

\* files of a song folder: name is set when the file is placed in a folder
FileKinds ==
    {[is_osu |-> TRUE, readable |-> TRUE, lines |-> c] :
        c \in {Chart1, Chart2, Chart3, Chart4, Chart5, Chart6}}
    \cup {[is_osu |-> TRUE, readable |-> FALSE, lines |-> Chart1],
          [is_osu |-> FALSE, readable |-> TRUE, lines |-> Chart1]}

Named(kinds, from) ==
    [k \in 1..Len(kinds) |->
        [name |-> from + k, is_osu |-> kinds[k].is_osu, readable |-> kinds[k].readable,
         lines |-> kinds[k].lines]]

\* a Songs folder: song folder "A" with the first half of the files, a plain
\* file, song folder "B" with the rest
SongsOf(kinds) ==
    LET n == Len(kinds)
        half == (n + 1) \div 2
    IN  <<[name |-> "A", isdir |-> TRUE, files |-> Named(SubSeq(kinds, 1, half), 0)],
          [name |-> "readme", isdir |-> FALSE, files |-> <<>>],
          [name |-> "B", isdir |-> TRUE, files |-> Named(SubSeq(kinds, half + 1, n), half)]>>

SongsFolders == {SongsOf(k) : k \in UNION {[1..n -> FileKinds] : n \in 1..MaxFiles}}

\* (artist, title, difficulty)
Queries ==
    {<<<<"A", "b">>, <<"T">>, None>>,
     <<<<" ", "A", "B", " ">>, <<"t">>, Some(<<"b", "a", "n", "a", "n", "a">>)>>,
     <<<<"A", "b">>, <<"T">>, Some(<<>>)>>,
     <<<<>>, <<"T">>, None>>,
     <<<<"A", "b">>, <<>>, Some(<<"a", "p", "p", "l", "e">>)>>}

(***************************************************************************)
(* find_beatmap_files: the function as a state machine                     *)
(***************************************************************************)

InitFind ==
    /\ \/ songs_exists = FALSE /\ songs = <<>>
       \/ songs_exists = TRUE /\ songs \in SongsFolders
    /\ \E q \in Queries : q_artist = q[1] /\ q_title = q[2] /\ q_difficulty = q[3]
    /\ f_pc = "start"
    /\ f_i = 1
    /\ f_j = 1
    /\ found_files = <<>>
    /\ StackIdle
    /\ ParseIdle
    /\ MainIdle

\* the two early "return []"
FindRefuse ==
    /\ f_pc = "start"
    /\ ~songs_exists \/ q_artist = <<>> \/ q_title = <<>>
    /\ found_files' = <<>>
    /\ f_pc' = "done"
    /\ UNCHANGED <<songs_exists, songs, q_artist, q_title, q_difficulty, f_i, f_j>>
    /\ UNCHANGED <<stackVars, parseVars, mainVars>>

\* found_files = [] and the first os.listdir
FindBegin ==
    /\ f_pc = "start"
    /\ songs_exists /\ q_artist # <<>> /\ q_title # <<>>
    /\ found_files' = <<>>
    /\ f_i' = 1
    /\ f_j' = 1
    /\ f_pc' = "scan"
    /\ UNCHANGED <<songs_exists, songs, q_artist, q_title, q_difficulty>>
    /\ UNCHANGED <<stackVars, parseVars, mainVars>>

\* the outer loop moves on: the entry is no directory, or its files are done
FindNextFolder ==
    /\ f_pc = "scan"
    /\ f_i <= Len(songs)
    /\ ~songs[f_i].isdir \/ f_j > Len(songs[f_i].files)
    /\ f_i' = f_i + 1
    /\ f_j' = 1
    /\ UNCHANGED <<songs_exists, songs, q_artist, q_title, q_difficulty, f_pc, found_files>>
    /\ UNCHANGED <<stackVars, parseVars, mainVars>>

\* one iteration of the inner loop: a file that is no .osu file is skipped, a
\* file that cannot be read raises and is skipped by the except clause
FindFile ==
    /\ f_pc = "scan"
    /\ f_i <= Len(songs)
    /\ songs[f_i].isdir
    /\ f_j <= Len(songs[f_i].files)
    /\ LET file == songs[f_i].files[f_j]
       IN  found_files' =
             IF file.is_osu /\ file.readable
             THEN found_files \o FoundEntry(file, songs[f_i].name, q_artist, q_title,
                                            q_difficulty)
             ELSE found_files
    /\ f_j' = f_j + 1
    /\ UNCHANGED <<songs_exists, songs, q_artist, q_title, q_difficulty, f_pc, f_i>>
    /\ UNCHANGED <<stackVars, parseVars, mainVars>>

\* found_files.sort(...); return found_files
FindReturn ==
    /\ f_pc = "scan"
    /\ f_i > Len(songs)
    /\ found_files' = SortFound(found_files)
    /\ f_pc' = "done"
    /\ UNCHANGED <<songs_exists, songs, q_artist, q_title, q_difficulty, f_i, f_j>>
    /\ UNCHANGED <<stackVars, parseVars, mainVars>>

NextFind ==
    \/ FindRefuse
    \/ FindBegin
    \/ FindNextFolder
    \/ FindFile
    \/ FindReturn

SpecFind == InitFind /\ [][NextFind]_vars

(***************************************************************************)
(* Claims about find_beatmap_files                                         *)
(***************************************************************************)

\* the file of the Songs folder a returned path names
FileAt(path) ==
    LET folder == CHOOSE d \in {songs[k] : k \in 1..Len(songs)} : d.isdir /\ d.name = path[1]
    IN  CHOOSE f \in {folder.files[k] : k \in 1..Len(folder.files)} : f.name = path[2]

\* some line of ls is a key: line whose value equals wanted after lower-casing
\* and trimming
HasHeader(ls, key, wanted) ==
    \E n \in 1..Len(ls) :
        /\ StartsWith(Strip(ls[n]), key)
        /\ Lower(Strip(AfterFirst(Strip(ls[n]), ":"))) = Lower(Strip(wanted))

\* the readable .osu files of the Songs folder
ChartFiles ==
    {f \in UNION {{songs[i].files[j] : j \in 1..Len(songs[i].files)} : i \in 1..Len(songs)} :
        f.is_osu /\ f.readable}

\* C5: every returned entry comes from a file with an Artist: and a Title:
\* header equal to the query's artist and title after lower-casing and
\* trimming, and an empty artist or title in the query returns the empty list.
C5_OnlyMatchingFilesReturned ==
    f_pc = "done" =>
        /\ \A k \in 1..Len(found_files) :
             /\ HasHeader(FileAt(found_files[k].path).lines, ArtistKey, q_artist)
             /\ HasHeader(FileAt(found_files[k].path).lines, TitleKey, q_title)
        /\ (q_artist = <<>> \/ q_title = <<>>) => found_files = <<>>

\* a search that returned a file and left out a chart file with the title of
\* the query but another, or no, artist
C5_Witness ==
    /\ f_pc = "done"
    /\ found_files # <<>>
    /\ \E f \in ChartFiles :
         /\ HasHeader(f.lines, TitleKey, q_title)
         /\ ~HasHeader(f.lines, ArtistKey, q_artist)
         /\ \A k \in 1..Len(found_files) : found_files[k].path[2] # f.name

\* C6: in the returned list every exact-difficulty match precedes every
\* non-exact match, and entries of equal exactness are in ascending order of
\* version compared case-insensitively, a missing version counting as "".
C6_SortedCaseInsensitive ==
    f_pc = "done" =>
        \A i, j \in 1..Len(found_files) :
            i < j =>
                /\ found_files[j].exact => found_files[i].exact
                /\ found_files[i].exact = found_files[j].exact =>
                     ~StrLess(Lower(VersionOrEmpty(found_files[j])),
                              Lower(VersionOrEmpty(found_files[i])))

(***************************************************************************)
(* main: one pass of the monitoring loop, from the search for the files of *)
(* a parsed title to the end of the processing of the selected folder      *)
(***************************************************************************)

OsuExt == <<".", "o", "s", "u">>

\* s.endswith(p)
EndsWith(s, p) == Len(s) >= Len(p) /\ SubSeq(s, Len(s) - Len(p) + 1, Len(s)) = p

\* s.rsplit(c, 1)[0]
BeforeLast(s, c) ==
    LET i == RIndexOf(s, c) IN IF i = 0 THEN s ELSE SubSeq(s, 1, i - 1)

\* output_name of a file of the folder
OutputName(diff_file, suf) ==
    LET name_without_ext == BeforeLast(diff_file, ".")
    IN  IF Contains(name_without_ext, "]")
        THEN BeforeLast(name_without_ext, "]") \o <<" ", "-", " ">> \o suf \o <<"]">> \o OsuExt
        ELSE name_without_ext \o <<"_">> \o suf \o OsuExt

\* a name put into a sorted list of names
RECURSIVE InsertName(_, _)
InsertName(sorted, n) ==
    IF sorted = <<>> THEN <<n>>
    ELSE IF StrLess(n, Head(sorted)) THEN <<n>> \o sorted
    ELSE <<Head(sorted)>> \o InsertName(Tail(sorted), n)

\* sorted(names)
RECURSIVE Sorted(_)
Sorted(names) ==
    IF names = <<>> THEN <<>>
    ELSE InsertName(Sorted(SubSeq(names, 1, Len(names) - 1)), names[Len(names)])

\* the for loop of stack_beatmap over ls: the lines of result, or raised = TRUE
\* when an iteration raises
RECURSIVE StackLines(_, _, _, _, _, _)
StackLines(ls, in_hit, acc, sx, sy, suf) ==
    IF ls = <<>> THEN [raised |-> FALSE, result |-> acc]
    ELSE LET r == TransformLine(Head(ls), in_hit, sx, sy, suf)
         IN  IF r.raised THEN [raised |-> TRUE, result |-> acc]
             ELSE StackLines(Tail(ls), r.in_hitobjects, Append(acc, r.line), sx, sy, suf)

\* One call of stack_beatmap: the returned value and what the call did to the
\* file at output_path (NoFile: the path was not opened). input is the file at
\* input_path, fail the step of the input/output that raises ("none", "read",
\* "open", "write"), k the number of lines that reached the file when the
\* writing raises.
stack_beatmap(input, sx, sy, suf, fail, k) ==
    IF ~input.readable \/ fail = "read"
    THEN [ret |-> FALSE, out |-> NoFile]
    ELSE LET r == StackLines(input.lines, FALSE, <<>>, sx, sy, suf)
         IN  IF r.raised \/ fail = "open"
             THEN [ret |-> FALSE, out |-> NoFile]
             ELSE IF fail = "write"
             THEN [ret |-> FALSE,
                   out |-> [exists |-> TRUE, text |-> Concat(Take(r.result, k))]]
             ELSE [ret |-> TRUE, out |-> [exists |-> TRUE, text |-> Concat(r.result)]]

\* the steps of one call at which the input/output can raise
IoFaults == {"none", "read", "open", "write"}

\* the numbers of lines that have reached the file when the call raises: none
\* when writelines() raises at once, all of them when the close raises
PartialWrites(input, fail) == IF fail = "write" THEN {0, Len(input.lines)} ELSE {0}

\* the tuple main keeps in mappers[fcreator] for an entry of found_files
MapperFile(e) ==
    [path |-> e.path, version |-> e.version, exact |-> e.exact, folder |-> e.folder]

\* one iteration of the grouping loop: mappers after the entry e
AddToMappers(ms, e) ==
    IF \E k \in 1..Len(ms) : ms[k].creator = e.creator
    THEN [k \in 1..Len(ms) |->
            IF ms[k].creator = e.creator
            THEN [creator |-> ms[k].creator, files |-> Append(ms[k].files, MapperFile(e))]
            ELSE ms[k]]
    ELSE Append(ms, [creator |-> e.creator, files |-> <<MapperFile(e)>>])

\* mappers after the grouping loop over found
RECURSIVE GroupByCreator(_)
GroupByCreator(found) ==
    IF found = <<>> THEN <<>>
    ELSE AddToMappers(GroupByCreator(SubSeq(found, 1, Len(found) - 1)), found[Len(found)])

\* the superscript two, U+00B2: a character str.isdigit() accepts and int()
\* rejects (spelled out, as the module is plain ASCII)
SuperscriptTwo == "sup2"

\* choice.isdigit()
IsDigitStr(choice) ==
    /\ choice # <<>>
    /\ \A i \in 1..Len(choice) : IsDigit(choice[i]) \/ choice[i] = SuperscriptTwo

\* int(choice) raises ValueError where it is evaluated
ChoiceRaises(choice) == IsDigitStr(choice) /\ ~IsInt(choice)

\* choice.isdigit() and 1 <= int(choice) <= n, for a choice that does not raise
ChoiceInRange(choice, n) ==
    IsDigitStr(choice) /\ 1 <= ParseInt(choice) /\ ParseInt(choice) <= n

\* the 1-based index the prompt selects among n options
ChosenIndex(choice, n) == IF ChoiceInRange(choice, n) THEN ParseInt(choice) ELSE 1

(***************************************************************************)
(* main: inputs                                                            *)
(***************************************************************************)

\* a chart whose [HitObjects] section holds a line stack_beatmap raises on
Chart7 ==
    <<HeaderLine(ArtistKey, <<"A", "b">>), HeaderLine(TitleKey, <<"T">>),
      HeaderLine(VersionKey, <<"b", "a", "n", "a", "n", "a">>),
      HeaderLine(CreatorKey, <<"m">>), HitObjectsMarker \o <<"\n">>, BadLine \o <<"\n">>>>

MainKinds ==
    {[is_osu |-> TRUE, readable |-> TRUE, lines |-> c] :
        c \in {Chart1, Chart2, Chart7}}
    \cup {[is_osu |-> TRUE, readable |-> FALSE, lines |-> Chart1],
          [is_osu |-> FALSE, readable |-> TRUE, lines |-> Chart1]}

MainSongs == {SongsOf(k) : k \in UNION {[1..n -> MainKinds] : n \in 1..MaxFiles}}

\* (artist, song_title, difficulty) as parse_title returns them, both names set
MainQueries ==
    {<<<<"A", "b">>, <<"T">>, None>>,
     <<<<"A", "B">>, <<"t">>, Some(<<"b", "a", "n", "a", "n", "a">>)>>}

\* the names os.listdir gives the files of a song folder, by their position
\* in the generated Songs folder, without the extension
BaseNames ==
    <<<<"a", "_", "a", "b">>, <<"a">>, <<"s", "[", "H", "]">>, <<"b">>, <<"c">>, <<"d">>>>

\* file_name of a file of the Songs folder
FileName(f) ==
    BaseNames[f.name] \o (IF f.is_osu THEN OsuExt ELSE <<".", "t", "x", "t">>)

\* (stack_x, stack_y, suffix) after the three prompts of the settings
MainSettings == {<<256, -3, <<"a", "b">>>>}

\* what input().strip() returns at a selection prompt
Choices == {<<>>, <<"2">>, <<"9">>, <<SuperscriptTwo>>}

\* what input().strip() returns at the prompt of the processing options
OptionChoices == {<<"1">>, <<"2">>, <<"0">>}

(***************************************************************************)
(* main: the pass as a state machine                                       *)
(***************************************************************************)

\* the song folder of the selected file: os.path.dirname(beatmap_file)
SelectedFolder ==
    CHOOSE d \in {songs[k] : k \in 1..Len(songs)} : d.isdir /\ d.name = beatmap_file.v[1]

\* the file of the selected folder with this name, as the folder was listed
FolderFile(name) ==
    CHOOSE f \in {SelectedFolder.files[k] : k \in 1..Len(SelectedFolder.files)} :
        FileName(f) = name

\* the file a call of stack_beatmap finds at the path of this name: what the
\* pass wrote there, or else the file of the folder
InputAt(name) ==
    IF \E k \in 1..Len(written) : written[k].name = name
    THEN LET w == CHOOSE k \in 1..Len(written) : written[k].name = name
         IN  [readable |-> TRUE, lines |-> readlines(written[w].text)]
    ELSE [readable |-> FolderFile(name).readable, lines |-> FolderFile(name).lines]

\* the files written so far after a call that left out at the path of name
Write(ws, name, out) ==
    IF ~out.exists THEN ws
    ELSE IF \E k \in 1..Len(ws) : ws[k].name = name
    THEN [k \in 1..Len(ws) |->
            IF ws[k].name = name THEN [name |-> name, text |-> out.text] ELSE ws[k]]
    ELSE Append(ws, [name |-> name, text |-> out.text])

\* processed is incremented after every call
ProcessedAlways(count, ok) == count + 1

\* if stack_beatmap(...): processed += 1
Processed(count, ok) == IF ok THEN count + 1 ELSE count

\* the settings are read, osu! is found, a title is parsed into an artist and
\* a song title, and find_beatmap_files is called
InitMain ==
    /\ \/ songs_exists = FALSE /\ songs = <<>>
       \/ songs_exists = TRUE /\ songs \in MainSongs
    /\ \E q \in MainQueries : q_artist = q[1] /\ q_title = q[2] /\ q_difficulty = q[3]
    /\ f_pc = "start"
    /\ f_i = 1
    /\ f_j = 1
    /\ found_files = <<>>
    /\ \E st \in MainSettings : stack_x = st[1] /\ stack_y = st[2] /\ suffix = st[3]
    /\ in_text = <<>>
    /\ pc = "idle"
    /\ lines = <<>>
    /\ idx = 1
    /\ result = <<>>
    /\ in_hitobjects = FALSE
    /\ out_file = NoFile
    /\ ret = "none"
    /\ run = 1
    /\ ParseIdle
    /\ m_pc = "find"
    /\ mappers = <<>>
    /\ selected_mapper = 0
    /\ beatmap_file = None
    /\ typed = <<>>
    /\ all_diffs = <<>>
    /\ b_i = 1
    /\ processed = 0
    /\ stack_calls = <<>>
    /\ written = <<>>
    /\ reported = -1

\* "if found_files:" is false
MainNotFound ==
    /\ m_pc = "find"
    /\ f_pc = "done"
    /\ found_files = <<>>
    /\ m_pc' = "waiting"
    /\ UNCHANGED <<mappers, selected_mapper, beatmap_file, typed, all_diffs, b_i,
                   processed, stack_calls, written, reported>>
    /\ UNCHANGED <<stackVars, parseVars, findVars>>

\* the grouping loop
MainGroup ==
    /\ m_pc = "find"
    /\ f_pc = "done"
    /\ found_files # <<>>
    /\ mappers' = GroupByCreator(found_files)
    /\ m_pc' = "grouped"
    /\ UNCHANGED <<selected_mapper, beatmap_file, typed, all_diffs, b_i,
                   processed, stack_calls, written, reported>>
    /\ UNCHANGED <<stackVars, parseVars, findVars>>

\* selected_mapper = list(mappers.keys())[0]
MainAutoMapper ==
    /\ m_pc = "grouped"
    /\ Len(mappers) <= 1
    /\ selected_mapper' = 1
    /\ m_pc' = "mapper_selected"
    /\ UNCHANGED <<mappers, beatmap_file, typed, all_diffs, b_i,
                   processed, stack_calls, written, reported>>
    /\ UNCHANGED <<stackVars, parseVars, findVars>>

\* the mapper prompt
MainChooseMapper ==
    /\ m_pc = "grouped"
    /\ Len(mappers) > 1
    /\ \E choice \in Choices :
         /\ typed' = Append(typed, [prompt |-> "mapper", choice |-> choice])
         /\ IF ChoiceRaises(choice)
            THEN /\ m_pc' = "raised"
                 /\ UNCHANGED selected_mapper
            ELSE /\ selected_mapper' = ChosenIndex(choice, Len(mappers))
                 /\ m_pc' = "mapper_selected"
    /\ UNCHANGED <<mappers, beatmap_file, all_diffs, b_i,
                   processed, stack_calls, written, reported>>
    /\ UNCHANGED <<stackVars, parseVars, findVars>>

\* beatmap_file = mapper_files[0][0]
MainAutoDifficulty ==
    /\ m_pc = "mapper_selected"
    /\ Len(mappers[selected_mapper].files) = 1
    /\ beatmap_file' = Some(mappers[selected_mapper].files[1].path)
    /\ m_pc' = "file_selected"
    /\ UNCHANGED <<mappers, selected_mapper, typed, all_diffs, b_i,
                   processed, stack_calls, written, reported>>
    /\ UNCHANGED <<stackVars, parseVars, findVars>>

\* the difficulty prompt
MainChooseDifficulty ==
    /\ m_pc = "mapper_selected"
    /\ Len(mappers[selected_mapper].files) # 1
    /\ \E choice \in Choices :
         /\ typed' = Append(typed, [prompt |-> "difficulty", choice |-> choice])
         /\ IF ChoiceRaises(choice)
            THEN /\ m_pc' = "raised"
                 /\ UNCHANGED beatmap_file
            ELSE /\ beatmap_file' =
                      Some(mappers[selected_mapper].files[
                             ChosenIndex(choice, Len(mappers[selected_mapper].files))].path)
                 /\ m_pc' = "file_selected"
    /\ UNCHANGED <<mappers, selected_mapper, all_diffs, b_i,
                   processed, stack_calls, written, reported>>
    /\ UNCHANGED <<stackVars, parseVars, findVars>>

\* The folder of the selected file is listed and the processing options are
\* asked for. last_processed_file is None in the first pass, so that the
\* selected file is never the one processed last.
MainOptions ==
    /\ m_pc = "file_selected"
    /\ all_diffs' =
         LET fs == SelectedFolder.files
         IN  Sorted(SelectSeq([k \in 1..Len(fs) |-> FileName(fs[k])],
                              LAMBDA n : EndsWith(n, OsuExt)))
    /\ \E choice \in OptionChoices :
         /\ typed' = Append(typed, [prompt |-> "options", choice |-> choice])
         /\ m_pc' = IF choice = <<"1">> THEN "single"
                    ELSE IF choice = <<"2">> THEN "batch"
                    ELSE "waiting"
    /\ b_i' = 1
    /\ processed' = 0
    /\ UNCHANGED <<mappers, selected_mapper, beatmap_file, stack_calls, written, reported>>
    /\ UNCHANGED <<stackVars, parseVars, findVars>>

\* choice '1': stack_beatmap on the selected file
MainSingle ==
    /\ m_pc = "single"
    /\ LET diff_file == FileName(FileAt(beatmap_file.v))
           input == InputAt(diff_file)
       IN  \E fail \in IoFaults : \E k \in PartialWrites(input, fail) :
             LET call == stack_beatmap(input, stack_x, stack_y, suffix, fail, k)
             IN  /\ stack_calls' = Append(stack_calls, [file |-> diff_file, ret |-> call.ret])
                 /\ written' = Write(written, OutputName(diff_file, suffix), call.out)
    /\ m_pc' = "waiting"
    /\ UNCHANGED <<mappers, selected_mapper, beatmap_file, typed, all_diffs, b_i,
                   processed, reported>>
    /\ UNCHANGED <<stackVars, parseVars, findVars>>

\* choice '2': one iteration of "for diff_file in all_diffs"
BatchFile ==
    /\ m_pc = "batch"
    /\ b_i <= Len(all_diffs)
    /\ LET diff_file == all_diffs[b_i]
           input == InputAt(diff_file)
       IN  \E fail \in IoFaults : \E k \in PartialWrites(input, fail) :
             LET call == stack_beatmap(input, stack_x, stack_y, suffix, fail, k)
             IN  /\ stack_calls' = Append(stack_calls, [file |-> diff_file, ret |-> call.ret])
                 /\ written' = Write(written, OutputName(diff_file, suffix), call.out)
                 /\ processed' = Processed(processed, call.ret)
    /\ b_i' = b_i + 1
    /\ UNCHANGED <<m_pc, mappers, selected_mapper, beatmap_file, typed, all_diffs, reported>>
    /\ UNCHANGED <<stackVars, parseVars, findVars>>

\* the loop is over: the count is printed
BatchReport ==
    /\ m_pc = "batch"
    /\ b_i > Len(all_diffs)
    /\ reported' = processed
    /\ m_pc' = "waiting"
    /\ UNCHANGED <<mappers, selected_mapper, beatmap_file, typed, all_diffs, b_i,
                   processed, stack_calls, written>>
    /\ UNCHANGED <<stackVars, parseVars, findVars>>

NextMain ==
    \/ FindRefuse
    \/ FindBegin
    \/ FindNextFolder
    \/ FindFile
    \/ FindReturn
    \/ MainNotFound
    \/ MainGroup
    \/ MainAutoMapper
    \/ MainChooseMapper
    \/ MainAutoDifficulty
    \/ MainChooseDifficulty
    \/ MainOptions
    \/ MainSingle
    \/ BatchFile
    \/ BatchReport

SpecMain == InitMain /\ [][NextMain]_vars

(***************************************************************************)
(* Claims about main                                                       *)
(***************************************************************************)

\* the names of the .osu files of the selected folder
ChartNames ==
    {n \in {FileName(SelectedFolder.files[k]) : k \in 1..Len(SelectedFolder.files)} :
        EndsWith(n, OsuExt)}

\* the number of calls of stack_beatmap so far that returned True
Successes == Cardinality({i \in 1..Len(stack_calls) : stack_calls[i].ret})

\* the files of the Songs folder, each with the name of its song folder
SongFiles ==
    UNION {{[folder |-> songs[i].name, file |-> songs[i].files[j]] :
               j \in 1..Len(songs[i].files)} : i \in {k \in 1..Len(songs) : songs[k].isdir}}

\* an Artist: and a Title: line among the header lines of f equal the artist
\* and the title of the query after lower-casing and trimming
MatchesQuery(f) ==
    /\ HasHeader(Take(f.lines, HeaderLimit), ArtistKey, q_artist)
    /\ HasHeader(Take(f.lines, HeaderLimit), TitleKey, q_title)

\* C11: a call of stack_beatmap that fails never stops the batch: while the
\* batch runs the calls made so far are those for the first files of the
\* folder in sorted order, nothing raises once a call was made, and when the
\* batch is over there was one call for every .osu file of the folder, in
\* ascending order of name, and the reported count is the number of calls that
\* returned True; and when find_beatmap_files returns to main, no unreadable
\* file is in the list and every readable .osu file that matches the query is.
C11_FailuresNeverStopTheBatch ==
    /\ m_pc = "raised" => stack_calls = <<>>
    /\ m_pc = "batch" =>
         /\ Len(stack_calls) = b_i - 1
         /\ processed = Successes
    /\ reported >= 0 =>
         /\ {stack_calls[i].file : i \in 1..Len(stack_calls)} = ChartNames
         /\ Len(stack_calls) = Cardinality(ChartNames)
         /\ \A i, j \in 1..Len(stack_calls) :
              i < j => StrLess(stack_calls[i].file, stack_calls[j].file)
         /\ reported = Successes
    /\ (m_pc = "find" /\ f_pc = "done" /\ songs_exists) =>
         \A sf \in SongFiles :
            LET listed == \E k \in 1..Len(found_files) :
                             found_files[k].path = <<sf.folder, sf.file.name>>
            IN  /\ ~sf.file.readable => ~listed
                /\ (sf.file.is_osu /\ sf.file.readable /\ MatchesQuery(sf.file)) => listed

\* a batch that is over in which a call failed and a later call succeeded,
\* after a search that skipped an unreadable file and returned another file
C11_Witness ==
    /\ reported >= 0
    /\ \E i, j \in 1..Len(stack_calls) :
         i < j /\ ~stack_calls[i].ret /\ stack_calls[j].ret
    /\ \E sf \in SongFiles : sf.file.is_osu /\ ~sf.file.readable
    /\ found_files # <<>>

\* the answer typed at this prompt, for a prompt that was answered
Answered(prompt) == \E i \in 1..Len(typed) : typed[i].prompt = prompt

Answer(prompt) == typed[CHOOSE i \in 1..Len(typed) : typed[i].prompt = prompt].choice

\* the answer is a 1-based index among n displayed options, in decimal digits
IsIndexInput(choice, n) ==
    /\ choice # <<>>
    /\ \A i \in 1..Len(choice) : IsDigit(choice[i])
    /\ 1 <= DigitsVal(choice, 0)
    /\ DigitsVal(choice, 0) <= n

\* the position of the entry with this path in the sorted match list
PositionOf(path) == CHOOSE k \in 1..Len(found_files) : found_files[k].path = path

\* the default was taken at the mapper selection: one group only, or no valid
\* input at the prompt
MapperDefaulted ==
    \/ Len(mappers) = 1 /\ m_pc \notin {"find", "grouped"}
    \/ Answered("mapper") /\ ~IsIndexInput(Answer("mapper"), Len(mappers))

\* the default was taken at the difficulty selection within the first group:
\* one file only, or no valid input at the prompt
DifficultyDefaulted ==
    \/ /\ Len(mappers[1].files) = 1
       /\ m_pc \notin {"find", "grouped", "mapper_selected"}
    \/ /\ Answered("difficulty")
       /\ ~IsIndexInput(Answer("difficulty"), Len(mappers[1].files))

\* C12: when the sorted match list holds an exact-difficulty match, the first
\* mapper group is the creator of its first entry, every entry is in the group
\* of its creator, every group is in the order of the list, and the defaults
\* (no valid input at a prompt, or the selection without a prompt when there
\* is one option) select the first group and then the first entry of the
\* list, which is an exact-difficulty match.
C12_DefaultSelectsFirstSortedEntry ==
    (f_pc = "done" /\ mappers # <<>> /\ \E k \in 1..Len(found_files) : found_files[k].exact) =>
        /\ mappers[1].creator = found_files[1].creator
        /\ \A k \in 1..Len(found_files) :
             \E g \in 1..Len(mappers) :
                /\ mappers[g].creator = found_files[k].creator
                /\ \E a \in 1..Len(mappers[g].files) :
                      mappers[g].files[a].path = found_files[k].path
        /\ \A g \in 1..Len(mappers) :
             \A a, b \in 1..Len(mappers[g].files) :
                a < b => PositionOf(mappers[g].files[a].path)
                           < PositionOf(mappers[g].files[b].path)
        /\ MapperDefaulted => selected_mapper = 1
        /\ (MapperDefaulted /\ DifficultyDefaulted) =>
             /\ beatmap_file = Some(found_files[1].path)
             /\ found_files[1].exact

====
